---------------------------- MODULE Spec2Model ----------------------------
(***************************************************************************)
(* Model of the text-detection service of src/app.py: the module-level     *)
(* Tesseract path resolution, the rate_limit decorator with its per-client *)
(* timestamp lists, the /api/detect-text handler with the image           *)
(* validation / preprocessing / recognition chain, and /api/health.        *)
(*                                                                         *)
(* Strings the code builds with f-strings are sequences of tokens, so that *)
(* wrapping a message ("Error processing image: " + str(e)) is a           *)
(* concatenation and stripping whitespace is computed token by token.      *)
(***************************************************************************)
EXTENDS Integers, Sequences, FiniteSets, TLC

---------------------------------------------------------------------------
(* Program constants (src/app.py lines 28-31 and the literal 60 of line 57) *)

MAX_IMAGE_SIZE == 10 * 1024 * 1024
MAX_REQUESTS_PER_MINUTE == 60
ALLOWED_IMAGE_TYPES == {"image/jpeg", "image/png", "image/gif", "image/bmp"}
MAX_IMAGE_DIMENSION == 4096
WINDOW_SECONDS == 60

---------------------------------------------------------------------------
(* Bounds of the model *)

\* seconds the wall clock advances in one Tick: half a window
TickSeconds == WINDOW_SECONDS \div 2
\* number of Ticks in a behaviour
MaxTicks == 2
\* longest raw engine output (in characters)
MaxLen == 2
\* requests handled in a behaviour of Spec
MaxRequests == 2
\* denied requests in a behaviour of SpecSolo
MaxDenied == 2
\* request threads of SpecConc
MaxThreads == 4

Clients == {"c1", "c2"}
Solo == "c1"
None == "None"

---------------------------------------------------------------------------
(* Module-level start-up: get_tesseract_path and lines 101-128 *)

OptPath == "/opt/tess/tesseract"
UsrBinPath == "/usr/bin/tesseract"

possible_paths ==
    << "C:\\Program Files\\Tesseract-OCR\\tesseract.exe",
       "C:\\Program Files (x86)\\Tesseract-OCR\\tesseract.exe",
       "C:\\Tesseract-OCR\\tesseract.exe",
       "/usr/bin/tesseract",
       "/usr/local/bin/tesseract",
       "/opt/homebrew/bin/tesseract" >>

\* The process environment at import: the TESSERACT_PATH variable, the files
\* that exist, the answer of shutil.which('tesseract'), the RENDER variable.
Environments ==
    { e \in [TESSERACT_PATH : {None, OptPath},
             exists : SUBSET {OptPath, UsrBinPath},
             which : {None, UsrBinPath},
             RENDER : BOOLEAN] :
        e.which # None => e.which \in e.exists }

DefaultEnv ==
    [TESSERACT_PATH |-> None, exists |-> {UsrBinPath}, which |-> UsrBinPath,
     RENDER |-> FALSE]

get_tesseract_path(env) ==
    IF env.TESSERACT_PATH # None /\ env.TESSERACT_PATH \in env.exists
    THEN env.TESSERACT_PATH
    ELSE IF env.which # None
    THEN env.which
    ELSE IF \E i \in 1..Len(possible_paths) : possible_paths[i] \in env.exists
    THEN LET i == CHOOSE j \in 1..Len(possible_paths) :
                      /\ possible_paths[j] \in env.exists
                      /\ \A k \in 1..(j-1) : possible_paths[k] \notin env.exists
         IN possible_paths[i]
    ELSE None

\* pytesseract's own default for pytesseract.pytesseract.tesseract_cmd
DefaultTesseractCmd == "tesseract"

\* Lines 101-128: the import either configures pytesseract or raises.
ModuleStartup(env) ==
    LET path == get_tesseract_path(env) IN
    IF path # None /\ path \in env.exists
    THEN [serving |-> TRUE, tesseract_path |-> path, tesseract_cmd |-> path]
    ELSE IF env.RENDER
    THEN IF UsrBinPath \in env.exists
         THEN [serving |-> TRUE, tesseract_path |-> UsrBinPath,
               tesseract_cmd |-> UsrBinPath]
         ELSE [serving |-> FALSE, tesseract_path |-> path,
               tesseract_cmd |-> DefaultTesseractCmd]
    ELSE [serving |-> FALSE, tesseract_path |-> path,
          tesseract_cmd |-> DefaultTesseractCmd]

---------------------------------------------------------------------------
(* Strings *)

Whitespace == {" ", "\n"}
Chars == {" ", "a"}

RECURSIVE LStrip(_)
LStrip(s) ==
    IF s # << >> /\ Head(s) \in Whitespace THEN LStrip(Tail(s)) ELSE s

RECURSIVE RStrip(_)
RStrip(s) ==
    IF s # << >> /\ s[Len(s)] \in Whitespace
    THEN RStrip(SubSeq(s, 1, Len(s) - 1))
    ELSE s

\* a strip that forgets the trailing whitespace
Strip_leading_only(s) == LStrip(s)

\* str.strip() of lines 196 and 199
Strip(s) == RStrip(LStrip(s))

Sentinel == << "No text detected in the image." >>

---------------------------------------------------------------------------
(* Requests: what a POST body decodes to.  An image value is described by  *)
(* what each stage of the code finds in it.                                *)

\* kinds of the JSON value under "image" that Python treats as false
Falsy == {"absent", "null", "empty"}

BaseImage ==
    [kind |-> "string", prefix |-> TRUE, mtype |-> "image/png",
     b64ok |-> TRUE, imgok |-> TRUE, width |-> 200, height |-> 50,
     size |-> 1024, mode |-> "RGB", engine |-> "ok", engine_out |-> << >>]

EngineOutputs == UNION { [1..n -> Chars] : n \in 0..MaxLen }

Images ==
    { [BaseImage EXCEPT !.kind = k] : k \in Falsy \cup {"number"} }
    \cup { [BaseImage EXCEPT !.prefix = FALSE] }
    \cup { [BaseImage EXCEPT !.mtype = m] :
              m \in ALLOWED_IMAGE_TYPES \cup {"image/webp", "image/svg+xml"} }
    \cup { [BaseImage EXCEPT !.b64ok = FALSE],
           [BaseImage EXCEPT !.imgok = FALSE] }
    \cup { [BaseImage EXCEPT !.width = w] :
              w \in {MAX_IMAGE_DIMENSION, MAX_IMAGE_DIMENSION + 1} }
    \cup { [BaseImage EXCEPT !.height = h] :
              h \in {MAX_IMAGE_DIMENSION, MAX_IMAGE_DIMENSION + 1} }
    \cup { [BaseImage EXCEPT !.size = z] :
              z \in {MAX_IMAGE_SIZE, MAX_IMAGE_SIZE + 1} }
    \cup { [BaseImage EXCEPT !.mode = m] : m \in {"RGBA", "L", "P"} }
    \cup { [BaseImage EXCEPT !.engine = "error"] }
    \cup { [BaseImage EXCEPT !.engine_out = o] : o \in EngineOutputs }

\* is_json: the Content-Type is JSON; json: the Python type of request.json
Requests ==
    { [is_json |-> TRUE, json |-> "dict", image |-> i] : i \in Images }
    \cup { [is_json |-> TRUE, json |-> j, image |-> BaseImage] :
              j \in {"list", "NoneType", "str"} }
    \cup { [is_json |-> FALSE, json |-> "dict", image |-> BaseImage] }

BaseRequest == [is_json |-> TRUE, json |-> "dict", image |-> BaseImage]

\* the request of src/test_deployment.py lines 25-36 (blank 200x50 PNG), and
\* one whose image carries text
SoloRequests ==
    { BaseRequest,
      [BaseRequest EXCEPT !.image.engine_out = << "a" >>] }

---------------------------------------------------------------------------
(* Outcomes of a call: exc = "" is a normal return of val *)

Return(v, ran, raw) ==
    [exc |-> "", msg |-> << >>, val |-> v, ran |-> ran, raw |-> raw]

Raise(e, m, ran) ==
    [exc |-> e, msg |-> m, val |-> << >>, ran |-> ran, raw |-> << >>]

AllowedTypesJoined == "image/jpeg, image/png, image/gif, image/bmp"

\* lines 130-141; the empty message means no exception
validate_image_data(image) ==
    IF image.kind \in Falsy
    THEN << "No image data provided" >>
    ELSE IF image.kind # "string"
    THEN << "Image data must be a string" >>
    ELSE IF ~image.prefix
    THEN << "Invalid image format. Expected base64 encoded image data" >>
    ELSE IF image.mtype \notin ALLOWED_IMAGE_TYPES
    THEN << "Unsupported image type. Allowed types: ", AllowedTypesJoined >>
    ELSE << >>

\* lines 143-158
validate_image_size(image) ==
    IF image.width > MAX_IMAGE_DIMENSION \/ image.height > MAX_IMAGE_DIMENSION
    THEN << "Image dimensions too large. Maximum dimension is ", "4096", "px" >>
    ELSE IF image.size > MAX_IMAGE_SIZE
    THEN << "Image size (", "<size/1024/1024, two decimals>", " MB) too large. Maximum size is ",
            "10.0", " MB" >>
    ELSE << >>

\* channels of numpy.array(image) for a PIL mode
Channels(mode) ==
    CASE mode = "RGB" -> 3
      [] mode = "RGBA" -> 4
      [] OTHER -> 1

\* lines 167-199: the body of the try block of process_image
process_image_body(image) ==
    LET v == validate_image_data(image) IN
    IF v # << >> THEN Raise("ValueError", v, {"validate"})
    ELSE IF ~image.b64ok
    THEN Raise("ValueError", << "Invalid image data: ", "Incorrect padding" >>,
               {"validate", "decode"})
    ELSE IF ~image.imgok
    THEN Raise("ValueError",
               << "Invalid image data: ", "cannot identify image file" >>,
               {"validate", "decode"})
    ELSE LET z == validate_image_size(image) IN
    IF z # << >> THEN Raise("ValueError", z, {"validate", "decode"})
    ELSE IF Channels(image.mode) \notin {3, 4}
    THEN Raise("cv2.error",
               << "OpenCV: Invalid number of channels in input image" >>,
               {"validate", "decode", "preprocess"})
    ELSE IF image.engine # "ok"
    THEN Raise("TesseractError", << "tesseract failed" >>,
               {"validate", "decode", "preprocess", "recognize"})
    ELSE LET text == image.engine_out
             ran == {"validate", "decode", "preprocess", "recognize"}
         IN IF Strip(text) = << >>
            THEN Return(Sentinel, ran, text)
            ELSE Return(Strip(text), ran, text)

\* lines 160-204
process_image(image, cmd) ==
    IF cmd = ""
    THEN Raise("Exception",
               << "Tesseract OCR is not configured correctly on the server." >>,
               {})
    ELSE LET r == process_image_body(image) IN
         IF r.exc # ""
         THEN Raise("Exception", << "Error processing image: " >> \o r.msg,
                    r.ran)
         ELSE r

\* What the fault behind a response is, in the taxonomy of the error contract;
\* not part of the wire response.
Cause(exc) ==
    CASE exc = "ValueError" -> "validation"
      [] exc = "" -> "none"
      [] OTHER -> "internal"

NoReq == [is_json |-> FALSE, json |-> "none", image |-> BaseImage]

Response(status, kind, msg, ran, cause, raw) ==
    [status |-> status, kind |-> kind, msg |-> msg, ran |-> ran,
     cause |-> cause, raw |-> raw]

\* lines 208-232
detect_text(req, cmd) ==
    IF ~req.is_json
    THEN Response(400, "error", << "Request must be JSON" >>,
                  {"handler", "json_check"}, "request", << >>)
    ELSE IF req.json # "dict"
    THEN \* data.get raises AttributeError, caught at line 229
         Response(500, "error",
                  << "'", req.json, "' object has no attribute 'get'" >>,
                  {"handler", "json_check"}, "internal", << >>)
    ELSE IF req.image.kind \in Falsy
    THEN Response(400, "error", << "No image data provided" >>,
                  {"handler", "json_check"}, "request", << >>)
    ELSE LET r == process_image(req.image, cmd)
             ran == {"handler", "json_check"} \cup r.ran
             cause == Cause(process_image_body(req.image).exc)
         IN IF r.exc = ""
            THEN Response(200, "text", r.val, ran, "none", r.raw)
            ELSE IF r.exc = "ValueError"
            THEN Response(400, "error", r.msg, ran, cause, << >>)
            ELSE Response(500, "error", r.msg, ran, cause, << >>)

\* a health check that looks at the Render fallback before the configured path
health_check_render_first(cmd, render, usr_bin_exists) ==
    LET tesseract_status ==
            IF render /\ usr_bin_exists
            THEN << "Expected at /usr/bin/tesseract (Render)" >>
            ELSE IF cmd # ""
            THEN << "Configured at ", cmd >>
            ELSE << "Not found or configured." >>
    IN [status |-> 200, kind |-> "healthy", msg |-> tesseract_status,
        ran |-> {"health"}, cause |-> "none", raw |-> << >>]

\* lines 235-248
health_check(cmd, render, usr_bin_exists) ==
    LET tesseract_status ==
            IF cmd # ""
            THEN << "Configured at ", cmd >>
            ELSE IF render /\ usr_bin_exists
            THEN << "Expected at /usr/bin/tesseract (Render)" >>
            ELSE << "Not found or configured." >>
    IN [status |-> 200, kind |-> "healthy", msg |-> tesseract_status,
        ran |-> {"health"}, cause |-> "none", raw |-> << >>]

Resp429 ==
    Response(429, "error", << "Rate limit exceeded. Please try again later." >>,
             {}, "rate_limit", << >>)

---------------------------------------------------------------------------
(* The rate limiter: rate_limit.decorated_function, lines 51-63 *)

EmptyDict == [c \in {} |-> << >>]

\* requests_dict.get(client_ip, [])
DictGet(d, c) == IF c \in DOMAIN d THEN d[c] ELSE << >>

\* requests_dict[client_ip] = v
DictPut(d, c, v) == [x \in DOMAIN d \cup {c} |-> IF x = c THEN v ELSE d[x]]

\* a filter that keeps a timestamp exactly one window old
InWindow_inclusive(now, req_time) == now - req_time <= WINDOW_SECONDS

\* the filter of line 57
InWindow(now, req_time) == now - req_time < WINDOW_SECONDS

\* the list comprehension of lines 56-57
PruneOld(list, now) == SelectSeq(list, LAMBDA t : InWindow(now, t))

\* a test that lets one request too many through
AtCapacity_off_by_one(list) == Len(list) > MAX_REQUESTS_PER_MINUTE

\* the test of line 59
AtCapacity(list) == Len(list) >= MAX_REQUESTS_PER_MINUTE

\* a limiter that records the attempt before it tests the capacity
decorated_function_record_first(d, c, now, req, cmd) ==
    LET d1 == DictPut(d, c, Append(PruneOld(DictGet(d, c), now), now)) IN
    IF Len(DictGet(d1, c)) > MAX_REQUESTS_PER_MINUTE
    THEN [dict |-> d1, resp |-> Resp429]
    ELSE [dict |-> d1, resp |-> detect_text(req, cmd)]

\* One whole call of decorated_function with nothing interleaved: lines 52-63
decorated_function(d, c, now, req, cmd) ==
    LET d1 == DictPut(d, c, PruneOld(DictGet(d, c), now)) IN
    IF AtCapacity(DictGet(d1, c))
    THEN [dict |-> d1, resp |-> Resp429]
    ELSE [dict |-> DictPut(d1, c, Append(DictGet(d1, c), now)),
          resp |-> detect_text(req, cmd)]

---------------------------------------------------------------------------
(* State *)

VARIABLES
    clock,          \* time.time(), in seconds
    RENDER,         \* os.environ.get('RENDER'), fixed for the process
    serving,        \* the import of the module succeeded
    tesseract_path, \* module global, line 101
    tesseract_cmd,  \* pytesseract.pytesseract.tesseract_cmd
    requests_dict,  \* the closure variable of rate_limit, line 48
    last,           \* the last request served and its response
    log,            \* history: per client, the requests of the trailing window
    denials,        \* history: number of 429 responses so far
    served,         \* history: number of requests handled so far
    pc,             \* per thread: position in decorated_function
    th_client,      \* per thread: request.remote_addr
    th_now,         \* per thread: the local now
    th_list,        \* per thread: the list built by the comprehension
    th_stale        \* per thread: the list it holds is no longer in the dict

seqvars == << clock, RENDER, serving, tesseract_path, tesseract_cmd,
              requests_dict, last, log, denials, served >>
thvars == << pc, th_client, th_now, th_list, th_stale >>
vars == << clock, RENDER, serving, tesseract_path, tesseract_cmd,
           requests_dict, last, log, denials, served,
           pc, th_client, th_now, th_list, th_stale >>

Threads == 1..MaxThreads

Zeros(n) == [i \in 1..n |-> 0]

NoLast ==
    [endpoint |-> "none", client |-> "none", now |-> 0, req |-> NoReq,
     resp |-> Response(0, "none", << >>, {}, "none", << >>), pruned |-> 0]

\* the entries of a history log that lie in the 60 seconds ending at now
Recent(entries, now) ==
    SelectSeq(entries, LAMBDA e : e.t > now - WINDOW_SECONDS /\ e.t <= now)

\* The state after the import of the module in environment e, followed by n
\* requests of client Solo at time 0 served one after the other (n = 0: the
\* state right after the import).
Started(e, n) ==
    LET m == ModuleStartup(e) IN
    /\ clock = 0
    /\ RENDER = e.RENDER
    /\ serving = m.serving
    /\ tesseract_path = m.tesseract_path
    /\ tesseract_cmd = m.tesseract_cmd
    /\ requests_dict = IF n = 0 THEN EmptyDict
                       ELSE DictPut(EmptyDict, Solo, Zeros(n))
    /\ last = NoLast
    /\ log = [c \in Clients |->
                IF c = Solo THEN [i \in 1..n |-> [t |-> 0, ok |-> TRUE]]
                ELSE << >>]
    /\ denials = 0
    /\ served = 0
    /\ pc = [t \in Threads |-> "idle"]
    /\ th_client = [t \in Threads |-> Solo]
    /\ th_now = [t \in Threads |-> 0]
    /\ th_list = [t \in Threads |-> << >>]
    /\ th_stale = [t \in Threads |-> FALSE]

---------------------------------------------------------------------------
(* Actions *)

\* the wall clock advances
Tick ==
    /\ clock + TickSeconds <= MaxTicks * TickSeconds
    /\ clock' = clock + TickSeconds
    /\ log' = [c \in Clients |-> Recent(log[c], clock')]
    /\ UNCHANGED << RENDER, serving, tesseract_path, tesseract_cmd,
                    requests_dict, last, denials, served >>
    /\ UNCHANGED thvars

\* POST /api/detect-text from client c, handled from start to end
DetectText(c, req) ==
    /\ serving
    /\ LET out == decorated_function(requests_dict, c, clock, req,
                                      tesseract_cmd)
       IN /\ requests_dict' = out.dict
          /\ last' = [endpoint |-> "detect", client |-> c, now |-> clock,
                      req |-> req, resp |-> out.resp,
                      pruned |-> Len(DictGet(requests_dict, c))
                                   - Len(PruneOld(DictGet(requests_dict, c),
                                                  clock))]
          /\ log' = [log EXCEPT ![c] =
                        Append(@, [t |-> clock, ok |-> out.resp.status # 429])]
          /\ denials' = denials + (IF out.resp.status = 429 THEN 1 ELSE 0)
    /\ UNCHANGED << clock, RENDER, serving, tesseract_path, tesseract_cmd >>
    /\ UNCHANGED thvars

\* GET /api/health; the file system is read anew at line 239
HealthCheck ==
    /\ serving
    /\ \E usr_bin_exists \in BOOLEAN :
         last' = [endpoint |-> "health", client |-> "none", now |-> clock,
                  req |-> NoReq,
                  resp |-> health_check(tesseract_cmd, RENDER, usr_bin_exists),
                  pruned |-> 0]
    /\ UNCHANGED << clock, RENDER, serving, tesseract_path, tesseract_cmd,
                    requests_dict, log, denials, served >>
    /\ UNCHANGED thvars

Serve(c, req) ==
    /\ served < MaxRequests
    /\ DetectText(c, req)
    /\ served' = served + 1

SoloRequest(req) ==
    /\ denials < MaxDenied
    /\ DetectText(Solo, req)
    /\ UNCHANGED served

\* The service with its requests handled one at a time, started in any
\* environment, idle or with client Solo at its capacity.
Init == \E e \in Environments :
        \E n \in {0, MAX_REQUESTS_PER_MINUTE} :
            Started(e, n)

Next ==
    \/ Tick
    \/ \E c \in Clients : \E req \in Requests : Serve(c, req)
    \/ HealthCheck

Spec == Init /\ [][Next]_vars

\* One client, from the state right after the import, up to its capacity
\* and beyond.
InitSolo == Started(DefaultEnv, 0)

NextSolo ==
    \/ Tick
    \/ \E req \in SoloRequests : SoloRequest(req)

SpecSolo == InitSolo /\ [][NextSolo]_vars

---------------------------------------------------------------------------
(* Concurrent requests: each thread runs decorated_function statement by  *)
(* statement.  The comprehension of lines 56-57 builds its list before    *)
(* the store into requests_dict, and line 62 obtains the list with        *)
(* setdefault before it appends to it; another thread can run in between. *)

\* line 52-53; threads are taken in order, they are interchangeable
Begin(t, c) ==
    /\ serving
    /\ pc[t] = "idle"
    /\ \A u \in Threads : u < t => pc[u] # "idle"
    /\ pc' = [pc EXCEPT ![t] = "filter"]
    /\ th_client' = [th_client EXCEPT ![t] = c]
    /\ th_now' = [th_now EXCEPT ![t] = clock]
    /\ UNCHANGED << th_list, th_stale >>
    /\ UNCHANGED seqvars

\* lines 56-57, right-hand side
Filter(t) ==
    /\ pc[t] = "filter"
    /\ th_list' = [th_list EXCEPT ![t] =
                      PruneOld(DictGet(requests_dict, th_client[t]), th_now[t])]
    /\ pc' = [pc EXCEPT ![t] = "assign"]
    /\ UNCHANGED << th_client, th_now, th_stale >>
    /\ UNCHANGED seqvars

\* line 56, the store: the client's list is replaced by a new list object,
\* so a thread holding the old one now holds a list the dict no longer has
Assign(t) ==
    /\ pc[t] = "assign"
    /\ requests_dict' = DictPut(requests_dict, th_client[t], th_list[t])
    /\ th_stale' = [u \in Threads |->
                      IF u # t /\ pc[u] = "append" /\ th_client[u] = th_client[t]
                      THEN TRUE ELSE th_stale[u]]
    /\ th_list' = [th_list EXCEPT ![t] = << >>]
    /\ pc' = [pc EXCEPT ![t] = "check"]
    /\ UNCHANGED << th_client, th_now >>
    /\ UNCHANGED << clock, RENDER, serving, tesseract_path, tesseract_cmd,
                    last, log, denials, served >>

\* lines 59-60; "denied" stands for the 429 response
Check(t) ==
    /\ pc[t] = "check"
    /\ pc' = [pc EXCEPT ![t] =
                IF AtCapacity(DictGet(requests_dict, th_client[t]))
                THEN "denied" ELSE "setdefault"]
    /\ UNCHANGED << th_client, th_now, th_list, th_stale >>
    /\ UNCHANGED seqvars

\* line 62, requests_dict.setdefault(client_ip, [])
SetDefault(t) ==
    /\ pc[t] = "setdefault"
    /\ requests_dict' = IF th_client[t] \in DOMAIN requests_dict
                        THEN requests_dict
                        ELSE DictPut(requests_dict, th_client[t], << >>)
    /\ th_stale' = [th_stale EXCEPT ![t] = FALSE]
    /\ pc' = [pc EXCEPT ![t] = "append"]
    /\ UNCHANGED << th_client, th_now, th_list >>
    /\ UNCHANGED << clock, RENDER, serving, tesseract_path, tesseract_cmd,
                    last, log, denials, served >>

\* line 62, .append(now), and line 63: the handler runs; it reads and writes
\* nothing that the threads share, "admitted" stands for its response
AppendNow(t) ==
    /\ pc[t] = "append"
    /\ requests_dict' =
          IF th_stale[t] THEN requests_dict
          ELSE DictPut(requests_dict, th_client[t],
                       Append(DictGet(requests_dict, th_client[t]), th_now[t]))
    /\ pc' = [pc EXCEPT ![t] = "admitted"]
    /\ UNCHANGED << th_client, th_now, th_list, th_stale >>
    /\ UNCHANGED << clock, RENDER, serving, tesseract_path, tesseract_cmd,
                    last, log, denials, served >>

\* requests of client Solo served before the threads start
ConcPreload == MAX_REQUESTS_PER_MINUTE - 3

InitConc == Started(DefaultEnv, ConcPreload)

NextConc ==
    \/ Tick
    \/ \E t \in Threads : \E c \in Clients : Begin(t, c)
    \/ \E t \in Threads : Filter(t)
    \/ \E t \in Threads : Assign(t)
    \/ \E t \in Threads : Check(t)
    \/ \E t \in Threads : SetDefault(t)
    \/ \E t \in Threads : AppendNow(t)

SpecConc == InitConc /\ [][NextConc]_vars

---------------------------------------------------------------------------
(* Properties *)

Range(f) == { f[i] : i \in DOMAIN f }

\* the last step handled a POST /api/detect-text and the clock has not moved
JustHandled == last.endpoint = "detect" /\ last.now = clock

\* C1: a client's requests served one after the other: a request that is
\* at most the 60th of the client in the trailing 60 seconds is admitted
\* (the handler runs); a request that follows 60 admitted requests of the
\* trailing 60 seconds is denied with 429; a request with no other request
\* of the client in the trailing 60 seconds is admitted, whatever was
\* denied before.
C1_SixtyPerWindow ==
    JustHandled =>
        LET c == last.client
            n == Len(log[c])
            okPrior == Cardinality({ i \in 1..(n - 1) : log[c][i].ok })
        IN /\ n >= 1
           /\ n <= MAX_REQUESTS_PER_MINUTE =>
                 last.resp.status # 429 /\ "handler" \in last.resp.ran
           /\ okPrior >= MAX_REQUESTS_PER_MINUTE => last.resp.status = 429
           /\ n = 1 => last.resp.status # 429

\* C1 witness: the client was denied, the window elapsed, and its next
\* request is admitted
C1_Witness ==
    /\ JustHandled
    /\ denials > 0
    /\ Len(log[last.client]) = 1
    /\ last.resp.status = 200
    /\ requests_dict[last.client] = << clock >>

\* the state in which the 61st request of a window has just been denied
C1_SixtyFirstDenied ==
    /\ JustHandled
    /\ last.resp.status = 429
    /\ Len(log[last.client]) = MAX_REQUESTS_PER_MINUTE + 1
    /\ \A i \in 1..MAX_REQUESTS_PER_MINUTE : log[last.client][i].ok

InvalidImage(img) ==
    \/ img.kind # "string"
    \/ ~img.prefix
    \/ img.mtype \notin {"image/jpeg", "image/png", "image/gif", "image/bmp"}
    \/ ~img.b64ok
    \/ ~img.imgok
    \/ img.width > 4096
    \/ img.height > 4096
    \/ img.size > 10 * 1024 * 1024

\* the request reached the handler with a JSON object carrying a non-empty
\* image value
CarriesImage ==
    /\ last.endpoint = "detect"
    /\ last.resp.status # 429
    /\ last.req.is_json
    /\ last.req.json = "dict"
    /\ last.req.image.kind \notin Falsy

\* C2: an admitted request whose non-empty image value fails validation is
\* answered 400 with the validation message (the allowed set for an
\* unsupported media type, the 4096 limit for oversized dimensions), never
\* 500.
C2_ValidationFailureIs400 ==
    (CarriesImage /\ InvalidImage(last.req.image)) =>
        LET img == last.req.image IN
        /\ last.resp.status = 400
        /\ last.resp.kind = "error"
        /\ (img.kind = "string" /\ img.prefix
              /\ img.mtype \notin ALLOWED_IMAGE_TYPES) =>
                 "image/jpeg, image/png, image/gif, image/bmp"
                    \in Range(last.resp.msg)
        /\ (img.kind = "string" /\ img.prefix
              /\ img.mtype \in ALLOWED_IMAGE_TYPES /\ img.b64ok /\ img.imgok
              /\ (img.width > 4096 \/ img.height > 4096)) =>
                 "4096" \in Range(last.resp.msg)

\* requests admitted for client c with a timestamp in the 60 seconds ending
\* at w, the requests served before the threads started included
AdmittedIn(c, w) ==
    (IF c = Solo /\ 0 > w - WINDOW_SECONDS /\ 0 <= w THEN ConcPreload ELSE 0)
    + Cardinality({ t \in Threads :
                      /\ pc[t] = "admitted" /\ th_client[t] = c
                      /\ th_now[t] > w - WINDOW_SECONDS /\ th_now[t] <= w })

\* requests issued by client c with a timestamp in the 60 seconds ending at w
IssuedIn(c, w) ==
    (IF c = Solo /\ 0 > w - WINDOW_SECONDS /\ 0 <= w THEN ConcPreload ELSE 0)
    + Cardinality({ t \in Threads :
                      /\ pc[t] # "idle" /\ th_client[t] = c
                      /\ th_now[t] > w - WINDOW_SECONDS /\ th_now[t] <= w })

\* requests admitted for client c with timestamp tau
AdmittedAt(c, tau) ==
    (IF c = Solo /\ tau = 0 THEN ConcPreload ELSE 0)
    + Cardinality({ t \in Threads :
                      pc[t] = "admitted" /\ th_client[t] = c /\ th_now[t] = tau })

StoredAt(c, tau) ==
    Cardinality({ i \in 1..Len(DictGet(requests_dict, c)) :
                    DictGet(requests_dict, c)[i] = tau })

Times == { k * TickSeconds : k \in 0..MaxTicks }

\* C3: under every interleaving of concurrent requests of one client, the
\* timestamp of every admitted request that is less than 60 seconds old is
\* in the client's sequence (no lost update), and no window of 60 seconds
\* holds more than 60 admitted requests of the client (no duplicate
\* admission).
C3_NoLostUpdateNoDuplicateAdmission ==
    \A c \in Clients :
        /\ \A tau \in Times :
              clock - tau < WINDOW_SECONDS =>
                  StoredAt(c, tau) >= AdmittedAt(c, tau)
        /\ \A w \in Times : AdmittedIn(c, w) <= MAX_REQUESTS_PER_MINUTE

\* C4: a request that finds 60 or more timestamps of its client less than
\* 60 seconds old is answered 429 with the rate-limit message, nothing of
\* the handler runs, the client's sequence holds the pruned timestamps and
\* no new one, and the other clients' sequences are unchanged.
C4_DenialLeavesNoTrace ==
    [][ served' # served =>
          LET c == last'.client
              old == DictGet(requests_dict, c)
              fresh == { i \in 1..Len(old) : clock - old[i] < WINDOW_SECONDS }
          IN Cardinality(fresh) >= MAX_REQUESTS_PER_MINUTE =>
                /\ last'.resp.status = 429
                /\ last'.resp.kind = "error"
                /\ last'.resp.msg =
                      << "Rate limit exceeded. Please try again later." >>
                /\ last'.resp.ran = {}
                /\ Len(requests_dict'[c]) = Cardinality(fresh)
                /\ \A i \in 1..Len(requests_dict'[c]) :
                      clock - requests_dict'[c][i] < WINDOW_SECONDS
                /\ \A d \in Clients \ {c} :
                      /\ d \in DOMAIN requests_dict' <=> d \in DOMAIN requests_dict
                      /\ DictGet(requests_dict', d) = DictGet(requests_dict, d)
      ]_vars

\* C4 witness: a request was denied while another client has timestamps
C4_Witness ==
    /\ last.endpoint = "detect"
    /\ last.resp.status = 429
    /\ last.resp.ran = {}
    /\ Len(requests_dict[last.client]) = MAX_REQUESTS_PER_MINUTE
    /\ \E d \in Clients \ {last.client} :
          d \in DOMAIN requests_dict /\ requests_dict[d] # << >>

\* C5: an admitted JSON request without an image (the body is not an
\* object, or it has no "image", or "image" is null or empty) is answered
\* 400 "No image data provided" and recognition does not run.
C5_MissingImageIs400 ==
    (/\ last.endpoint = "detect"
     /\ last.resp.status # 429
     /\ last.req.is_json
     /\ (last.req.json # "dict" \/ last.req.image.kind \in Falsy)) =>
        /\ last.resp.status = 400
        /\ last.resp.msg = << "No image data provided" >>
        /\ "recognize" \notin last.resp.ran

\* C6: a 500 response caused by a fault that is not a validation, rate-limit
\* or engine-unavailable error carries the generic message only.
C6_InternalFaultIsGeneric ==
    (/\ last.endpoint = "detect"
     /\ last.resp.status = 500
     /\ last.resp.cause = "internal") =>
        last.resp.msg = << "Internal server error" >>

\* C7: with any number of clients issuing requests concurrently, a request
\* is denied only if its client has 60 or more requests of its own in some
\* window of 60 seconds.
C7_NoDenialBelowCap ==
    \A t \in Threads :
        pc[t] = "denied" =>
            \E w \in Times : IssuedIn(th_client[t], w) >= MAX_REQUESTS_PER_MINUTE

\* a step changes the sequence of a client only if a thread serving that
\* client takes it: the part of C7 about other clients' sequences
CrossClientIsolation ==
    [][ \A d \in Clients :
          DictGet(requests_dict', d) # DictGet(requests_dict, d) =>
              \E t \in Threads : pc'[t] # pc[t] /\ th_client[t] = d ]_vars

AllWhitespace(s) == \A i \in 1..Len(s) : s[i] \in {" ", "\n"}

\* text is raw without its leading and trailing whitespace
IsTrimOf(text, raw) ==
    /\ text # << >>
    /\ text[1] \notin {" ", "\n"}
    /\ text[Len(text)] \notin {" ", "\n"}
    /\ \E i \in 0..Len(raw) :
          /\ i + Len(text) <= Len(raw)
          /\ AllWhitespace(SubSeq(raw, 1, i))
          /\ SubSeq(raw, i + 1, i + Len(text)) = text
          /\ AllWhitespace(SubSeq(raw, i + Len(text) + 1, Len(raw)))

\* C8: when the engine ran on the image of an admitted request and returned
\* its output, the response is 200; its text is "No text detected in the
\* image." if the output is empty or all whitespace, and the output without
\* its leading and trailing whitespace otherwise.
C8_NoTextIsSuccess ==
    (/\ CarriesImage
     /\ "recognize" \in last.resp.ran
     /\ last.req.image.engine = "ok") =>
        LET raw == last.req.image.engine_out IN
        /\ last.resp.status = 200
        /\ last.resp.kind = "text"
        /\ IF AllWhitespace(raw)
           THEN last.resp.msg = << "No text detected in the image." >>
           ELSE IsTrimOf(last.resp.msg, raw)

\* C8 witness: the engine returned whitespace only and the response is 200
\* with the sentinel
C8_Witness ==
    /\ CarriesImage
    /\ ~InvalidImage(last.req.image)
    /\ "recognize" \in last.resp.ran
    /\ last.req.image.engine_out # << >>
    /\ AllWhitespace(last.req.image.engine_out)
    /\ last.resp.status = 200
    /\ last.resp.msg = Sentinel

\* C9: whenever the service runs, GET /api/health can be answered, whatever
\* the rate limiter holds; its answer is 200 "healthy", nothing of the
\* recognition chain runs, and the engine status is "Configured at" the path
\* resolved at start-up, which exists in every state the service runs in.
C9_HealthAlways200 ==
    /\ serving => ENABLED HealthCheck
    /\ serving => tesseract_path # None
    /\ last.endpoint = "health" =>
          /\ last.resp.status = 200
          /\ last.resp.kind = "healthy"
          /\ last.resp.ran \cap {"handler", "validate", "decode",
                                 "preprocess", "recognize"} = {}
          /\ last.resp.msg = << "Configured at ", tesseract_path >>

\* C9 witness: health answered while a client is at its capacity and was
\* denied
C9_Witness ==
    /\ last.endpoint = "health"
    /\ last.resp.status = 200
    /\ denials > 0
    /\ \E c \in DOMAIN requests_dict :
          Len(requests_dict[c]) >= MAX_REQUESTS_PER_MINUTE

\* C10: after a request of a client handled at time now, every timestamp
\* stored for the client is less than 60 seconds older than now.
C10_StoredWithinWindow ==
    last.endpoint = "detect" =>
        /\ last.client \in DOMAIN requests_dict
        /\ \A i \in 1..Len(requests_dict[last.client]) :
              last.now - requests_dict[last.client][i] < WINDOW_SECONDS

\* C10 witness: the request pruned some timestamps and kept others
C10_Witness ==
    /\ JustHandled
    /\ last.pruned > 0
    /\ \E i \in 1..Len(requests_dict[last.client]) :
          requests_dict[last.client][i] < clock

====
